---- MODULE Spec2Model ----
(***************************************************************************)
(* Omni-Search: POST /api/omni-search of the three server variants         *)
(*   "v1" = src/server.js          (Instagram only, one candidate list)    *)
(*   "v2" = src/unnamed/part_001   (Instagram + web, one candidate list)   *)
(*   "v3" = src/unnamed/part_000   (Instagram + web, two channels, merge)  *)
(* One request is followed from the handler's entry to its response.  The  *)
(* search provider and the model provider are the environment: every call  *)
(* they are given settles in its own step, in any order.                   *)
(*                                                                         *)
(* JavaScript strings are sequences of tokens (a token is a character or   *)
(* a fixed piece of a template literal), so that concatenation, includes,  *)
(* replace and toLowerCase are computed and not assumed.  Every other      *)
(* JavaScript value is a record tagged by its type in field k.             *)
(***************************************************************************)
EXTENDS Integers, Sequences, FiniteSets, TLC

(***************************************************************************)
(* Bounds of the environment.                                              *)
(***************************************************************************)
\* at most this many search page calls of one request throw
MaxThrows == 1
\* at most this many hits are returned to one request, all pages together
MaxRawHits == 3
\* at most this many candidates of one channel are handed to a classifier
MaxCandidates == 81
\* the bulk-scrape script scans this many of its hashtags
MaxHashtags == 3

(***************************************************************************)
(* JavaScript values.                                                      *)
(***************************************************************************)
Undef == [k |-> "undefined"]
JNull == [k |-> "null"]
Str(s) == [k |-> "string", s |-> s]
Num(n) == [k |-> "number", n |-> n]
Arr(a) == [k |-> "array", a |-> a]
\* an entity object as the classification prompts ask for it
Entity(name, handle, logo, url) ==
  [k |-> "object", name |-> name, handle |-> handle, logo |-> logo, url |-> url,
   sourceQuery |-> Undef]
\* the object the expansion prompt asks for
ExpansionObj(location, intent, queries) ==
  [k |-> "object", location |-> location, intent |-> intent, queries |-> queries]

Nullish(v) == v.k \in {"undefined", "null"}
\* a test that takes every value but null and undefined for true
TruthyUnlessNullish(v) == v.k \notin {"undefined", "null"}

\* ToBoolean
Truthy(v) ==
  CASE v.k \in {"undefined", "null"} -> FALSE
    [] v.k = "string" -> v.s # <<>>
    [] v.k = "number" -> v.n # 0
    [] OTHER -> TRUE
\* a || b
Or(a, b) == IF Truthy(a) THEN a ELSE b
\* v.f for a value that is not null or undefined (the caller checks that)
Get(v, f) == IF v.k = "object" /\ f \in DOMAIN v THEN v[f] ELSE Undef

(***************************************************************************)
(* String operations on token sequences.                                   *)
(***************************************************************************)
LowerChar(c) ==
  CASE c = "A" -> "a" [] c = "B" -> "b" [] c = "C" -> "c" [] OTHER -> c
\* String.prototype.toLowerCase
ToLowerCase(s) == [i \in 1..Len(s) |-> LowerChar(s[i])]
\* String.prototype.includes
Includes(s, t) ==
  \E i \in 0..(Len(s) - Len(t)) : \A j \in 1..Len(t) : s[i + j] = t[j]
\* String.prototype.replace(c, '') with a string pattern: the first
\* occurrence only
ReplaceFirst(s, c) ==
  IF \E i \in 1..Len(s) : s[i] = c
  THEN LET i == CHOOSE n \in 1..Len(s) : s[n] = c /\ \A m \in 1..(n - 1) : s[m] # c
       IN SubSeq(s, 1, i - 1) \o SubSeq(s, i + 1, Len(s))
  ELSE s

RECURSIVE FlatLastFirst(_)
\* a concatenation that puts the later sequences first
FlatLastFirst(ss) == IF ss = <<>> THEN <<>> ELSE FlatLastFirst(Tail(ss)) \o Head(ss)

RECURSIVE Flat(_)
\* Array.prototype.flat() of a sequence of sequences
Flat(ss) == IF ss = <<>> THEN <<>> ELSE Head(ss) \o Flat(Tail(ss))

(***************************************************************************)
(* Program constants.                                                      *)
(***************************************************************************)
Variants == {"v1", "v2", "v3"}
\* v1: pages per query of searchInstagram
PAGES_PER_QUERY == 2
\* classifyResults (v1, v2) and classifyInstagramResults (v3)
BATCH_SIZE == 40
\* extractFromWebResults (v3)
WEB_BATCH_SIZE == 30
\* v2: only the first queries are searched on the open web
WEB_QUERY_LIMIT == 5

\* the pages argument googleSearch is called with, per variant and strategy
Pages(v, ch) ==
  CASE v = "v1" -> (IF ch = "ig" THEN PAGES_PER_QUERY ELSE 0)
    [] v = "v2" -> (IF ch = "ig" THEN 2 ELSE 1)
    [] v = "v3" -> (IF ch = "ig" THEN 3 ELSE 2)
\* Array.from({ length: pages }, (_, i) => 1 + (i * 10))
Offsets(pages) == [i \in 1..pages |-> 1 + ((i - 1) * 10)]

\* the text a string, a number or another value contributes to a template
\* literal
ToStr(v) ==
  CASE v.k = "string" -> v.s
    [] v.k = "number" -> <<ToString(v.n)>>
    [] OTHER -> <<v.k>>

\* searchQuery of the hits of phrase number i (from 1) with text q
Label(v, ch, i, q) ==
  CASE v = "v1" -> <<"Q", ToString(i), ": ">> \o q
    [] ch = "ig" -> <<"IG: ">> \o q
    [] OTHER -> <<"WEB: ">> \o q

(***************************************************************************)
(* Model text: a sequence of tokens, each a code fence, a well-formed      *)
(* JSON document or text that is no JSON.                                  *)
(***************************************************************************)
Fence == [t |-> "fence"]
FenceJson == [t |-> "fence-json"]
Doc(v) == [t |-> "json", v |-> v]
Junk == [t |-> "junk"]

\* raw.replace(/(fence)json|(fence)/g, '').trim(), fence being three backquotes
Clean(raw) == SelectSeq(raw, LAMBDA x : x.t \notin {"fence", "fence-json"})
\* JSON.parse: the value, or a SyntaxError
JsonParse(clean) ==
  IF Len(clean) = 1 /\ clean[1].t = "json"
  THEN [threw |-> FALSE, v |-> clean[1].v]
  ELSE [threw |-> TRUE, v |-> Undef]

(***************************************************************************)
(* expandQuery.  g is what callGemini gave: [threw, raw].                  *)
(***************************************************************************)
Bool(b) == [k |-> "boolean", b |-> b]
\* an Error object
ErrorObj(msg) == [k |-> "object", message |-> Str(msg)]
\* the Error callGemini throws when both models failed
BothFailed == ErrorObj(<<"Both models failed.">>)

FallbackQueries(v, userQuery) ==
  CASE v = "v1" ->
         << userQuery, userQuery \o <<" club">>, userQuery \o <<" community">>,
            userQuery \o <<" fitness">>, userQuery \o <<" event">>,
            userQuery \o <<" academy">> >>
    [] v = "v2" ->
         << userQuery, userQuery \o <<" club">>, userQuery \o <<" community">>,
            userQuery \o <<" fitness">>, userQuery \o <<" event">>,
            userQuery \o <<" running">>, userQuery \o <<" yoga">>,
            userQuery \o <<" sports">> >>
    [] v = "v3" ->
         << userQuery, userQuery \o <<" club">>, userQuery \o <<" community">>,
            userQuery \o <<" fitness">>, userQuery \o <<" event">>,
            userQuery \o <<" running">>, userQuery \o <<" yoga">>,
            userQuery \o <<" sports">>, <<"best fitness clubs ">> \o userQuery,
            <<"top run clubs ">> \o userQuery >>

FallbackExpansion(v, userQuery) ==
  [location |-> Str(<<"Unknown">>), intent |-> Str(userQuery),
   queries |-> [i \in 1..Len(FallbackQueries(v, userQuery)) |->
                  Str(FallbackQueries(v, userQuery)[i])],
   fallback |-> Bool(TRUE)]

\* the try block runs to its return: the text parses, parsed.queries.length
\* and parsed.queries.forEach do not throw
ExpansionParses(g) ==
  /\ ~g.threw
  /\ ~JsonParse(Clean(g.raw)).threw
  /\ LET parsed == JsonParse(Clean(g.raw)).v
     IN /\ ~Nullish(parsed)
        /\ Get(parsed, "queries").k = "array"

ExpandQuery(v, userQuery, g) ==
  IF ExpansionParses(g)
  THEN LET parsed == JsonParse(Clean(g.raw)).v
       IN [location |-> Get(parsed, "location"), intent |-> Get(parsed, "intent"),
           queries |-> Get(parsed, "queries").a, fallback |-> Get(parsed, "fallback")]
  ELSE FallbackExpansion(v, userQuery)

\* what the catch block of expandQuery caught
ExpandCaught(g) ==
  IF g.threw THEN BothFailed
  ELSE IF JsonParse(Clean(g.raw)).threw THEN ErrorObj(<<"SyntaxError">>)
  ELSE ErrorObj(<<"TypeError">>)
\* a catch block that throws again
ExpandCatchRethrows(err) == TRUE
\* console.error(... err.message ...) in the catch block throws
ExpandCatchThrows(err) == Nullish(err)
\* expandQuery rejects
ExpandQueryThrows(g) == ~ExpansionParses(g) /\ ExpandCatchThrows(ExpandCaught(g))

\* try { expansion = await expandQuery(query) } catch (e) { errors.push; ... }
HandlerExpansion(v, userQuery, g) ==
  IF ExpandQueryThrows(g)
  THEN [location |-> Str(<<"Unknown">>), intent |-> Str(userQuery),
        queries |-> <<Str(userQuery)>>, fallback |-> Bool(TRUE)]
  ELSE ExpandQuery(v, userQuery, g)

(***************************************************************************)
(* The search provider.  It has hits for the phrases of Corpus only; a     *)
(* page call for another phrase is answered at once with no items.         *)
(***************************************************************************)
La == <<"ig/", "a">>
Lb == <<"ig/", "b">>
Corpus == { <<"q">>, <<"run club">> }
\* the link lists of the pages the provider may answer with
PageMenu == << <<La>>, <<Lb, La>> >>
\* what a page call may throw: an Error, a rate-limit Error, a thrown value
\* that has no message
ThrownMenu == << ErrorObj(<<"socket hang up">>),
                 ErrorObj(<<"quota ", "429", " rateLimitExceeded">>),
                 Str(<<"quota">>) >>

\* the record the provider returns for link l on the page of call c
\* (c = <<strategy, phrase number, start>>); the metadata depends on the page
ProviderHit(c, l) ==
  [title |-> <<"T:">> \o l,
   link |-> l,
   snippet |-> <<c[1], ToString(c[2]), ToString(c[3])>>,
   ogDescription |-> IF c[3] = 1 THEN Str(<<"d:", c[1]>>) ELSE Undef,
   ogImage |-> IF c[3] = 1 THEN Str(<<"og:", c[1]>>) ELSE Undef,
   cseImage |-> IF c[3] = 11 THEN Str(<<"cse:", c[1]>>) ELSE Undef]

\* (res.data.items || []).map(item => ({ ...item, searchQuery: label }))
LabelHits(items, label) ==
  [i \in 1..Len(items) |-> [searchQuery |-> label] @@ items[i]]

\* the catch block of a page: e.message.includes(...) throws a TypeError
\* when e is null or undefined or e.message is no string
PageCatchThrows(e) == Nullish(e) \/ Get(e, "message").k # "string"

(***************************************************************************)
(* Deduplication.                                                          *)
(***************************************************************************)
\* the candidate pushed for a hit; the web fold of v3 stores no logoUrl
Candidate(item, withLogo) ==
  LET base == [title |-> item.title, link |-> item.link, snippet |-> item.snippet,
               ogDescription |-> Or(item.ogDescription, Str(<<>>)),
               sourceQuery |-> item.searchQuery]
  IN IF withLogo
     THEN base @@ [logoUrl |-> Or(item.ogImage, Or(item.cseImage, JNull))]
     ELSE base

\* a fold that keeps every hit
DedupeKeepAll(items, seen0, withLogo) ==
  [seen |-> seen0 \cup {items[i].link : i \in 1..Len(items)},
   unique |-> [i \in 1..Len(items) |-> Candidate(items[i], withLogo)]]

\* a fold in which the last hit of a link wins
DedupeLastWins(items, seen0, withLogo) ==
  LET keep == {i \in 1..Len(items) :
                 /\ items[i].link \notin seen0
                 /\ \A j \in (i + 1)..Len(items) : items[j].link # items[i].link}
      F[i \in 0..Len(items)] ==
        IF i = 0 THEN <<>>
        ELSE IF i \in keep THEN Append(F[i - 1], Candidate(items[i], withLogo))
             ELSE F[i - 1]
  IN [seen |-> seen0 \cup {items[i].link : i \in 1..Len(items)},
      unique |-> F[Len(items)]]

\* a fold that starts from a seen-set of its own
DedupeOwnSet(items, seen0, withLogo) ==
  LET F[i \in 0..Len(items)] ==
        IF i = 0 THEN [seen |-> {}, unique |-> <<>>]
        ELSE IF items[i].link \in F[i - 1].seen THEN F[i - 1]
             ELSE [seen |-> F[i - 1].seen \cup {items[i].link},
                   unique |-> Append(F[i - 1].unique, Candidate(items[i], withLogo))]
  IN [seen |-> seen0 \cup F[Len(items)].seen, unique |-> F[Len(items)].unique]

\* for (const item of items) if (!seenUrls.has(item.link)) { add; push }.
\* acc is the set and the list before item i, computed once
Dedupe(items, seen0, withLogo) ==
  LET F[i \in 0..Len(items)] ==
        IF i = 0 THEN [seen |-> seen0, unique |-> <<>>]
        ELSE CHOOSE next \in
               {IF items[i].link \in acc.seen THEN acc
                ELSE [seen |-> acc.seen \cup {items[i].link},
                      unique |-> Append(acc.unique, Candidate(items[i], withLogo))] :
                  acc \in {F[i - 1]}} : TRUE
  IN F[Len(items)]

\* a partition into batches of one candidate each
BatchesOfOne(candidates, size) ==
  [b \in 1..Len(candidates) |-> <<candidates[b]>>]

\* a partition that keeps the full batches only
BatchesDropRemainder(candidates, size) ==
  [b \in 1..(Len(candidates) \div size) |->
     SubSeq(candidates, (b - 1) * size + 1, b * size)]

\* for (let i = 0; i < n; i += size) batches.push(candidates.slice(i, i + size))
Batches(candidates, size) ==
  LET n == Len(candidates)
      count == (n + size - 1) \div size
  IN [b \in 1..count |->
        SubSeq(candidates, (b - 1) * size + 1,
               IF b * size < n THEN b * size ELSE n)]

(***************************************************************************)
(* callGemini.  One record per prompt: where the call stands, how often    *)
(* each model was called for the prompt, which of the calls threw.         *)
(***************************************************************************)
NewCall ==
  [stage |-> "primary", primaryCalls |-> 1, fallbackCalls |-> 0,
   primaryThrew |-> FALSE, fallbackThrew |-> FALSE]

\* a helper that tries the fallback model whatever the primary did
AfterPrimaryAlwaysFallback(st, threw) ==
  [st EXCEPT !.stage = "fallback", !.fallbackCalls = @ + 1, !.primaryThrew = threw]

\* try { return await tryModel(PRIMARY_MODEL) } catch (e1) { ... tryModel(FALLBACK_MODEL)
AfterPrimary(st, threw) ==
  IF threw
  THEN [st EXCEPT !.stage = "fallback", !.fallbackCalls = @ + 1, !.primaryThrew = TRUE]
  ELSE [st EXCEPT !.stage = "returned"]

\* try { return await tryModel(FALLBACK_MODEL) } catch (e2) { throw new Error(...) }
AfterFallback(st, threw) ==
  IF threw
  THEN [st EXCEPT !.stage = "threw", !.fallbackThrew = TRUE]
  ELSE [st EXCEPT !.stage = "returned"]


(***************************************************************************)
(* What the model may answer, per prompt kind.                             *)
(***************************************************************************)
ExpandTexts ==
  << <<Junk>>,
     <<Doc(ExpansionObj(Str(<<"Vizag">>), Str(<<"clubs">>), Undef))>>,
     <<Doc(ExpansionObj(Str(<<"Vizag">>), Str(<<"clubs">>), Arr(<<>>)))>>,
     <<FenceJson,
       Doc(ExpansionObj(Str(<<"Vizag">>), Str(<<"clubs">>),
                        Arr(<<Str(<<"run club">>), Str(<<"yoga">>)>>))),
       Fence>> >>

ClassifyTexts ==
  << <<Junk>>,
     <<FenceJson,
       Doc(Arr(<<Entity(Str(<<"C", "lub">>), Str(<<"@", "a">>), JNull, Undef)>>)),
       Fence>>,
     <<Doc(Arr(<<Entity(Str(<<"One">>), Str(<<"@", "a">>), Str(<<"logo1">>), Str(La)),
                 Entity(Str(<<"Two">>), Str(<<"@", "A">>), JNull, Undef)>>))>>,
     <<Doc(JNull)>>,
     <<Doc(Arr(<<Entity(Undef, JNull, JNull, Str(Lb)),
                 Entity(Str(<<"Bare">>), Str(<<"@">>), JNull, Undef)>>))>> >>

ExtractTexts ==
  << <<Junk>>,
     <<FenceJson,
       Doc(Arr(<<Entity(Str(<<"New">>), Str(<<"@", "b">>), JNull, Undef),
                 Entity(Str(<<"Again">>), Str(<<"@", "B">>), JNull, Undef)>>)),
       Fence>>,
     <<Doc(Arr(<<Entity(Str(<<"c", "lub">>), JNull, JNull, Undef),
                 Entity(Str(<<"Dup">>), Str(<<"@", "A">>), JNull, Undef),
                 Entity(Str(<<"C", "lub">>), Str(<<>>), JNull, Undef)>>))>>,
     <<Doc(Arr(<<Entity(Str(<<"Num">>), Num(5), JNull, JNull)>>))>> >>

\* the texts the primary model may return for prompt p
PrimaryTexts(p) ==
  CASE p[1] = "expand" -> ExpandTexts
    [] p[1] = "classify" -> ClassifyTexts
    [] p[1] = "extract" -> ExtractTexts
\* the fallback model, when it does not throw, returns a well-formed answer
FallbackTexts(p) ==
  IF p[1] = "expand" THEN <<ExpandTexts[4]>> ELSE <<PrimaryTexts(p)[2]>>

(***************************************************************************)
(* Classification of one batch and of a candidate list.                    *)
(***************************************************************************)
\* try { raw = await callGemini; return JSON.parse(clean) } catch { return [] }
BatchValue(g) ==
  IF g.threw \/ JsonParse(Clean(g.raw)).threw THEN Arr(<<>>)
  ELSE JsonParse(Clean(g.raw)).v

\* a concatenation of the batch results that puts the later batches first
FlatValuesLastFirst(vs) ==
  FlatLastFirst([i \in 1..Len(vs) |-> IF vs[i].k = "array" THEN vs[i].a ELSE <<vs[i]>>])

\* batchResults.flat(): arrays are spread, every other value is kept
FlatValues(vs) ==
  Flat([i \in 1..Len(vs) |-> IF vs[i].k = "array" THEN vs[i].a ELSE <<vs[i]>>])

(***************************************************************************)
(* Merge of the two classified lists (v3).                                 *)
(***************************************************************************)
\* r.handle?.toLowerCase() throws a TypeError
HandleLowerThrows(r) ==
  Nullish(r) \/ (~Nullish(Get(r, "handle")) /\ Get(r, "handle").k # "string")
HandleLower(r) ==
  IF Nullish(Get(r, "handle")) THEN Undef
  ELSE Str(ToLowerCase(Get(r, "handle").s))

\* mergedResults.some(r => r.name.toLowerCase() === nameKey):
\* "found", "absent", or "throws" at an entity whose name is no string
SomeName(merged, nameKey) ==
  LET bad(i) == Get(merged[i], "name").k # "string"
      hit(i) == ~bad(i) /\ ToLowerCase(Get(merged[i], "name").s) = nameKey
      stops == {i \in 1..Len(merged) : bad(i) \/ hit(i)}
  IN IF stops = {} THEN "absent"
     ELSE LET first == CHOOSE i \in stops : \A j \in stops : i <= j
          IN IF bad(first) THEN "throws" ELSE "found"

\* an iteration that compares the handles as they are written
MergeStepCaseSensitive(acc, webResult) ==
  IF acc.threw THEN acc
  ELSE IF HandleLowerThrows(webResult) THEN [acc EXCEPT !.threw = TRUE]
  ELSE LET handle == Get(webResult, "handle")
           name == Get(webResult, "name")
       IN IF Truthy(handle) /\ handle.s \notin acc.seen
          THEN [acc EXCEPT !.seen = @ \cup {handle.s},
                           !.merged = Append(@, webResult)]
          ELSE IF ~Truthy(handle) /\ Truthy(name)
          THEN IF name.k # "string" THEN [acc EXCEPT !.threw = TRUE]
               ELSE LET some == SomeName(acc.merged, ToLowerCase(name.s))
                    IN CASE some = "throws" -> [acc EXCEPT !.threw = TRUE]
                         [] some = "found" -> acc
                         [] some = "absent" -> [acc EXCEPT !.merged = Append(@, webResult)]
          ELSE acc

\* one iteration of  for (const webResult of webExtracted)
MergeStep(acc, webResult) ==
  IF acc.threw THEN acc
  ELSE IF HandleLowerThrows(webResult) THEN [acc EXCEPT !.threw = TRUE]
  ELSE LET handle == HandleLower(webResult)
           name == Get(webResult, "name")
       IN IF Truthy(handle) /\ handle.s \notin acc.seen
          THEN [acc EXCEPT !.seen = @ \cup {handle.s},
                           !.merged = Append(@, webResult)]
          ELSE IF ~Truthy(handle) /\ Truthy(name)
          THEN IF name.k # "string" THEN [acc EXCEPT !.threw = TRUE]
               ELSE LET some == SomeName(acc.merged, ToLowerCase(name.s))
                    IN CASE some = "throws" -> [acc EXCEPT !.threw = TRUE]
                         [] some = "found" -> acc
                         [] some = "absent" -> [acc EXCEPT !.merged = Append(@, webResult)]
          ELSE acc

\* a merge that starts from the web-extracted entities
MergeSecondaryFirst(ig, web) ==
  [threw |-> FALSE, seen |-> {}, merged |-> web \o ig]

\* mergedResults = [...igClassified]; seenHandles = new Set(...); the loop.
\* acc is the state of the loop before iteration i, computed once
Merge(ig, web) ==
  IF \E i \in 1..Len(ig) : HandleLowerThrows(ig[i])
  THEN [threw |-> TRUE, seen |-> {}, merged |-> ig]
  ELSE LET seen0 == {HandleLower(ig[i]).s :
                       i \in {j \in 1..Len(ig) : Truthy(HandleLower(ig[j]))}}
           F[i \in 0..Len(web)] ==
             IF i = 0 THEN [threw |-> FALSE, seen |-> seen0, merged |-> ig]
             ELSE CHOOSE next \in {MergeStep(acc, web[i]) : acc \in {F[i - 1]}} : TRUE
       IN F[Len(web)]

(***************************************************************************)
(* Logo re-attachment.                                                     *)
(***************************************************************************)
\* the argument of includes: r.handle?.replace('@', ''); throws when the
\* handle has no replace method
HandleArgThrows(r) == ~Nullish(Get(r, "handle")) /\ Get(r, "handle").k # "string"
HandleArg(r) ==
  IF Nullish(Get(r, "handle")) THEN <<"undefined">>
  ELSE ReplaceFirst(Get(r, "handle").s, "@")

\* candidates.find(u => u.link === r.url || u.link.includes(...)):
\* [threw, found, u]
FindOriginal(candidates, r) ==
  LET same(i) == Get(r, "url").k = "string" /\ Get(r, "url").s = candidates[i].link
      bad(i) == ~same(i) /\ HandleArgThrows(r)
      hit(i) == same(i) \/ (~bad(i) /\ Includes(candidates[i].link, HandleArg(r)))
      stops == {i \in 1..Len(candidates) : bad(i) \/ hit(i)}
  IN IF candidates # <<>> /\ Nullish(r) THEN [threw |-> TRUE, found |-> FALSE]
     ELSE IF stops = {} THEN [threw |-> FALSE, found |-> FALSE]
     ELSE LET first == CHOOSE i \in stops : \A j \in stops : i <= j
          IN IF bad(first) THEN [threw |-> TRUE, found |-> FALSE]
             ELSE [threw |-> FALSE, found |-> TRUE, u |-> candidates[first]]

\* a re-attachment that prefers the candidate's image to the classifier's
ReattachCandidateFirst(v, candidates, r) ==
  LET original == FindOriginal(candidates, r)
      logoUrl == IF original.found /\ "logoUrl" \in DOMAIN original.u
                 THEN original.u.logoUrl ELSE Undef
      source == IF original.found THEN Str(original.u.sourceQuery) ELSE Undef
  IN [k |-> "object", name |-> Get(r, "name"), handle |-> Get(r, "handle"),
      url |-> Get(r, "url"), logo |-> Or(logoUrl, Or(Get(r, "logo"), JNull)),
      sourceQuery |-> IF v = "v3"
                      THEN Or(Get(r, "sourceQuery"), Or(source, Str(<<"Discovery">>)))
                      ELSE Or(source, Str(<<"Unknown">>))]

\* const original = candidates.find(...), computed once;
\* { ...r, logo: r.logo || original?.logoUrl || null, sourceQuery: ... }
Reattach(v, candidates, r) ==
  LET spread(original) ==
        LET logoUrl == IF original.found /\ "logoUrl" \in DOMAIN original.u
                       THEN original.u.logoUrl ELSE Undef
            source == IF original.found THEN Str(original.u.sourceQuery) ELSE Undef
            logo == Or(Get(r, "logo"), Or(logoUrl, JNull))
            sourceQuery == IF v = "v3"
                           THEN Or(Get(r, "sourceQuery"), Or(source, Str(<<"Discovery">>)))
                           ELSE Or(source, Str(<<"Unknown">>))
        IN [k |-> "object", name |-> Get(r, "name"), handle |-> Get(r, "handle"),
            url |-> Get(r, "url"), logo |-> logo, sourceQuery |-> sourceQuery]
  IN CHOOSE out \in {spread(original) : original \in {FindOriginal(candidates, r)}} : TRUE

\* results.map(r => ...): throws when r is null (r.url) or find throws
ReattachAll(v, candidates, results) ==
  IF \E i \in 1..Len(results) :
       Nullish(results[i]) \/ FindOriginal(candidates, results[i]).threw
  THEN [threw |-> TRUE, results |-> <<>>]
  ELSE [threw |-> FALSE,
        results |-> [i \in 1..Len(results) |-> Reattach(v, candidates, results[i])]]

(***************************************************************************)
(* State of one request.                                                   *)
(***************************************************************************)
VARIABLES
  variant,        \* which server file handles the request
  query,          \* req.body.query
  pc,             \* "start", "expand", "search", "batch", "classify", "done"
  responses,      \* what res.json was called with, in order
  expansion,      \* let expansion
  errors,         \* const errors = []
  gem,            \* callGemini, per prompt <<kind, number>>
  searchCalls,    \* customSearch.cse.list calls issued
  page,           \* the page promises of the phrases the provider knows
  gs,             \* the googleSearch(...).catch(...) promises of these phrases
  allIgItems,     \* allIgItems (v3), allItems (v1, v2)
  allWebItems,    \* allWebItems (v3)
  seenUrls,       \* seenUrls
  uniqueIgItems,  \* uniqueIgItems (v3), uniqueItems (v1, v2)
  uniqueWebItems, \* uniqueWebItems (v3)
  batches,        \* the batch of each classification prompt
  got,            \* what callGemini gave for a prompt: [threw, raw]
  batchOut,       \* what the batch promise of a prompt resolved with
  igClassified,   \* igClassified (v3), validResults before the map (v1, v2)
  webExtracted,   \* webExtracted (v3)
  mergedResults,  \* mergedResults (v3)
  finalResults,   \* finalResults (v3), validResults after the map (v1, v2)
  envRead,        \* process.env as the handler has read it (env_check)
  firstArrival,   \* per link, the page call that was the first to return it
  peer,           \* the locals of a second invocation of the handler, if any
  overtook,       \* the batch calls that settled before an earlier batch's call
  scrape          \* the bulk-scrape script: collectUsernamesFromHashtags

searchVars == <<searchCalls, page, gs, firstArrival>>
dedupVars == <<allIgItems, allWebItems, seenUrls, uniqueIgItems, uniqueWebItems, batches>>
clsVars == <<igClassified, webExtracted, mergedResults, finalResults>>
vars == <<variant, query, pc, responses, expansion, errors, gem, got, searchVars,
          dedupVars, batchOut, clsVars, envRead, peer, overtook, scrape>>
\* the variables of the server
serverVars == <<variant, query, pc, responses, expansion, errors, gem, got, searchVars,
                dedupVars, batchOut, clsVars, envRead, peer, overtook>>

EmptyMap == [x \in {} |-> 0]
NoExpansion == [location |-> Undef, intent |-> Undef, queries |-> <<>>, fallback |-> Undef]
ExpandPrompt == <<"expand", 1>>

\* process.env: every value set, no search engine id, an empty model key
Env(gemini, searchKey, cx) ==
  [GEMINI_API_KEY |-> gemini, GOOGLE_SEARCH_API_KEY |-> searchKey, GOOGLE_SEARCH_CX |-> cx]
Envs == { Env(Str(<<"k1">>), Str(<<"k2">>), Str(<<"cx">>)),
          Env(Str(<<"k1">>), Str(<<"k2">>), Undef),
          Env(Str(<<>>), Str(<<"k2">>), Str(<<"cx">>)) }
NotRead == [k |-> "unread"]
\* one request only
NoPeer == [id |-> 0]
\* the script does not run
NoScrape == [pc |-> "idle"]

\* the bodies of the requests
Queries == {Undef, Str(<<>>), Str(<<"q">>)}

\* firstArrival when the arrivals are not recorded
NotKept == (<<"not kept">> :> <<"none", 0, 0>>)

\* the state of a request that has arrived; first is the record of arrivals
Fresh(first) ==
  /\ variant \in Variants
  /\ query \in Queries
  /\ pc = "start"
  /\ responses = <<>>
  /\ expansion = NoExpansion
  /\ errors = <<>>
  /\ gem = EmptyMap
  /\ searchCalls = 0
  /\ page = EmptyMap
  /\ gs = EmptyMap
  /\ firstArrival = first
  /\ allIgItems = <<>>
  /\ allWebItems = <<>>
  /\ seenUrls = {}
  /\ uniqueIgItems = <<>>
  /\ uniqueWebItems = <<>>
  /\ batches = EmptyMap
  /\ got = EmptyMap
  /\ batchOut = EmptyMap
  /\ igClassified = <<>>
  /\ webExtracted = <<>>
  /\ mergedResults = <<>>
  /\ finalResults = <<>>
  /\ envRead = NotRead
  /\ peer = NoPeer
  /\ overtook = {}
  /\ scrape = NoScrape

Init == Fresh(EmptyMap)

(***************************************************************************)
(* Responses.                                                              *)
(***************************************************************************)
ErrorResponse(status, message) == [status |-> status, error |-> message]

\* a meta block that reports the number of phrases as candidates_scanned
MetaCountsPhrases(exp, scanned) ==
  [query |-> query, candidates_scanned |-> Len(exp.queries),
   queries_used |-> Len(exp.queries),
   location |-> exp.location, intent |-> exp.intent, expanded_queries |-> exp.queries]

\* meta of the responses
Meta(exp, scanned) ==
  [query |-> query, candidates_scanned |-> scanned, queries_used |-> Len(exp.queries),
   location |-> exp.location, intent |-> exp.intent, expanded_queries |-> exp.queries]

DefaultError == <<"All queries returned empty">>

\* env_check: { X: !!process.env.X, ... }
EnvCheck(env) ==
  [GEMINI_API_KEY |-> Bool(Truthy(env.GEMINI_API_KEY)),
   GOOGLE_SEARCH_API_KEY |-> Bool(Truthy(env.GOOGLE_SEARCH_API_KEY)),
   GOOGLE_SEARCH_CX |-> Bool(Truthy(env.GOOGLE_SEARCH_CX))]

\* a zero-candidates response that reports the errors array as it is
ZeroResponseBareErrors(exp, errs, env) ==
  [status |-> 200, results |-> <<>>, meta |-> Meta(exp, 0),
   debug |-> [k |-> "object", errors |-> errs, env_check |-> EnvCheck(env)]]

\* the response of the zero-candidates branch
ZeroResponse(exp, errs, env) ==
  [status |-> 200, results |-> <<>>, meta |-> Meta(exp, 0),
   debug |-> [k |-> "object",
              errors |-> IF Len(errs) > 0 THEN errs ELSE <<DefaultError>>,
              env_check |-> EnvCheck(env)]]

\* the response at the end of the try block
FinalResponse(exp, errs, scanned, results) ==
  [status |-> 200, results |-> results, meta |-> Meta(exp, scanned),
   debug |-> IF Len(errs) > 0 THEN [k |-> "object", errors |-> errs] ELSE Undef]

\* a response that is sent and then sent again by code that runs on
SendAndRunOn(sent, response) == Append(Append(sent, response), response)

\* res.json / res.status(...).json
Send(sent, response) == Append(sent, response)

(***************************************************************************)
(* The stages of the handler.  A stage runs to the next await; when the    *)
(* awaited promises are settled already, the handler runs on.  A local     *)
(* const of the code is bound as \E x \in {e}, which computes e once.      *)
(***************************************************************************)
\* the number of phrases searched on the open web
WebCount(v, n) ==
  CASE v = "v1" -> 0
    [] v = "v2" -> (IF n < WEB_QUERY_LIMIT THEN n ELSE WEB_QUERY_LIMIT)
    [] v = "v3" -> n

\* errors.push(...) of the catch of a googleSearch promise
ErrorEntry(v, ch, label) ==
  (CASE v = "v1" -> <<"Search [">>
     [] v = "v2" -> (IF ch = "ig" THEN <<"IG Search [">> ELSE <<"Web Search [">>)
     [] v = "v3" -> (IF ch = "ig" THEN <<"IG [">> ELSE <<"WEB [">>))
  \o label \o <<"]: ", "Cannot read properties of undefined (reading 'includes')">>

\* the end of the handler: merge, logo re-attachment, response
AfterClassify(bo) ==
  LET count(kind) == Cardinality({p \in DOMAIN batches : p[1] = kind})
      scanned == Len(uniqueIgItems) + Len(uniqueWebItems)
  IN
  \E classified \in {FlatValues([b \in 1..count("classify") |-> bo[<<"classify", b>>]])} :
  \E extracted \in {FlatValues([b \in 1..count("extract") |-> bo[<<"extract", b>>]])} :
  \E m \in {IF variant = "v3" THEN Merge(classified, extracted)
             ELSE [threw |-> FALSE, seen |-> {}, merged |-> classified]} :
  \E r \in {ReattachAll(variant, uniqueIgItems, m.merged)} :
     /\ igClassified' = classified
     /\ webExtracted' = extracted
     /\ mergedResults' = IF variant = "v3" /\ ~m.threw THEN m.merged ELSE <<>>
     /\ finalResults' = IF m.threw \/ r.threw THEN <<>> ELSE r.results
     /\ responses' =
          IF m.threw \/ r.threw
          THEN Send(responses, ErrorResponse(500, <<"TypeError">>))
          ELSE Send(responses, FinalResponse(expansion, errors, scanned, r.results))
     /\ pc' = "done"

\* the classifiers cut their candidates into batches and call the model
\* once for each batch
StartClassify(igCandidates, webCandidates, gem1) ==
  \E bc \in {Batches(igCandidates, BATCH_SIZE)} :
  \E be \in {Batches(webCandidates, WEB_BATCH_SIZE)} :
  \E prompts \in {{<<"classify", b>> : b \in 1..Len(bc)} \cup
                   {<<"extract", b>> : b \in 1..Len(be)}} :
     /\ batches' = [p \in prompts |->
                      IF p[1] = "classify" THEN bc[p[2]] ELSE be[p[2]]]
     /\ gem' = gem1 @@ [p \in prompts |-> NewCall]
     /\ pc' = "classify"

\* from the join of the searches to the await of the classification
AfterSearch(exp, errs, gem1, gs1) ==
  LET n == Len(exp.queries)
      items(ch, i) == IF <<ch, i>> \in DOMAIN gs1 THEN gs1[<<ch, i>>].items ELSE <<>>
  IN
  \E igAll \in {Flat([i \in 1..n |-> items("ig", i)])} :
  \E webAll \in {Flat([i \in 1..WebCount(variant, n) |-> items("web", i)])} :
  \E d1 \in {IF variant = "v3" THEN Dedupe(igAll, {}, TRUE)
              ELSE Dedupe(igAll \o webAll, {}, TRUE)} :
  \E d2 \in {IF variant = "v3" THEN Dedupe(webAll, d1.seen, FALSE)
              ELSE [seen |-> d1.seen, unique |-> <<>>]} :
     /\ allIgItems' = IF variant = "v3" THEN igAll ELSE igAll \o webAll
     /\ allWebItems' = IF variant = "v3" THEN webAll ELSE <<>>
     /\ seenUrls' = d2.seen
     /\ uniqueIgItems' = d1.unique
     /\ uniqueWebItems' = d2.unique
     /\ IF Len(d1.unique) + Len(d2.unique) = 0
        THEN /\ \E env \in Envs :
                  /\ envRead' = env
                  /\ responses' = Send(responses, ZeroResponse(exp, errs, env))
             /\ pc' = "done"
             /\ gem' = gem1
             /\ batches' = EmptyMap
        ELSE /\ StartClassify(d1.unique, d2.unique, gem1)
             /\ UNCHANGED <<responses, envRead>>

\* the page calls of the fan-out over n phrases: <<strategy, phrase, start>>
SearchTriples(v, n) ==
  {c \in {"ig", "web"} \X (1..n) \X {Offsets(3)[j] : j \in 1..3} :
     /\ c[2] <= (IF c[1] = "ig" THEN n ELSE WebCount(v, n))
     /\ \E j \in 1..Pages(v, c[1]) : c[3] = Offsets(Pages(v, c[1]))[j]}

\* from the return of expandQuery to the await of the searches
StartSearch(exp, errs, gem1) ==
  LET n == Len(exp.queries)
      count(ch) == IF ch = "ig" THEN n ELSE WebCount(variant, n)
  IN
  \E groups \in {{g \in {"ig", "web"} \X (1..n) :
                     /\ g[2] <= count(g[1])
                     /\ Pages(variant, g[1]) > 0
                     /\ ToStr(exp.queries[g[2]]) \in Corpus}} :
  \E calls \in {UNION {{<<g[1], g[2], Offsets(Pages(variant, g[1]))[j]>> :
                           j \in 1..Pages(variant, g[1])} : g \in groups}} :
  \E gs1 \in {[g \in groups |-> [st |-> "pending", items |-> <<>>, rejected |-> FALSE]]} :
     /\ searchCalls' = Cardinality(SearchTriples(variant, n))
     /\ page' = [c \in calls |-> [st |-> "pending", items |-> <<>>, threw |-> Undef]]
     /\ gs' = gs1
     /\ firstArrival' = firstArrival
     /\ IF groups = {}
        THEN AfterSearch(exp, errs, gem1, gs1)
        ELSE /\ pc' = "search"
             /\ gem' = gem1
             /\ UNCHANGED <<dedupVars, responses, envRead>>

\* callGemini gave g (returned text or threw) for prompt p
Resume(p, g, gem1) ==
  /\ got' = got @@ (p :> g)
  /\ overtook' = IF \E q \in DOMAIN batches \ DOMAIN got : q[1] = p[1] /\ q[2] < p[2]
                 THEN overtook \cup {p} ELSE overtook
  /\ UNCHANGED <<peer, scrape>>
  /\ IF p[1] = "expand"
     THEN \E exp \in {HandlerExpansion(variant, query.s, g)} :
          \E errs \in {IF ExpandQueryThrows(g)
                        THEN Append(errors, <<"Query Expansion: ">>) ELSE errors} :
             /\ expansion' = exp
             /\ errors' = errs
             /\ StartSearch(exp, errs, gem1)
             /\ UNCHANGED <<variant, query, batchOut, clsVars>>
     ELSE \E bo \in {batchOut @@ (p :> BatchValue(g))} :
          /\ batchOut' = bo
          /\ gem' = gem1
          /\ IF DOMAIN bo = DOMAIN batches
             THEN AfterClassify(bo)
             ELSE UNCHANGED <<clsVars, responses, pc>>
          /\ UNCHANGED <<variant, query, expansion, errors, searchVars, dedupVars, envRead>>

(***************************************************************************)
(* Actions.                                                                *)
(***************************************************************************)
\* the handler from its entry to res.status(400) or to await expandQuery
HandleRequest ==
  /\ pc = "start"
  /\ IF ~Truthy(query)
     THEN /\ responses' = Send(responses, ErrorResponse(400, <<"Query required">>))
          /\ pc' = "done"
          /\ UNCHANGED gem
     ELSE /\ gem' = (ExpandPrompt :> NewCall)
          /\ pc' = "expand"
          /\ UNCHANGED responses
  /\ UNCHANGED <<variant, query, expansion, errors, got, searchVars, dedupVars,
                 batchOut, clsVars, envRead, peer, overtook, scrape>>

ModelOutcomes(texts) ==
  {[threw |-> TRUE, raw |-> <<>>]} \cup
  {[threw |-> FALSE, raw |-> texts[i]] : i \in 1..Len(texts)}

\* the primary model settles the call for prompt p
PrimarySettles(p) ==
  /\ gem[p].stage = "primary"
  /\ \E o \in ModelOutcomes(PrimaryTexts(p)) :
       \E st \in {AfterPrimary(gem[p], o.threw)} :
       \E gem1 \in {[gem EXCEPT ![p] = st]} :
          IF st.stage = "returned"
          THEN Resume(p, o, gem1)
          ELSE /\ gem' = gem1
               /\ UNCHANGED <<variant, query, pc, responses, expansion, errors, got,
                              searchVars, dedupVars, batchOut, clsVars, envRead, peer,
                              overtook, scrape>>

\* the fallback model settles the call for prompt p
FallbackSettles(p) ==
  /\ gem[p].stage = "fallback"
  /\ \E o \in ModelOutcomes(FallbackTexts(p)) :
       \E st \in {AfterFallback(gem[p], o.threw)} :
       \E g \in {[threw |-> st.stage = "threw", raw |-> o.raw]} :
       \E gem1 \in {[gem EXCEPT ![p] = st]} :
          Resume(p, g, gem1)

Thrown == Cardinality({c \in DOMAIN page : page[c].threw # Undef})
RawHits(pg) ==
  LET cs == DOMAIN pg
      F[S \in SUBSET cs] ==
        IF S = {} THEN 0
        ELSE LET c == CHOOSE x \in S : TRUE IN Len(pg[c].items) + F[S \ {c}]
  IN F[cs]

\* the links of items that no page call had returned are first returned by
\* page call c
Arrive(first, c, items) ==
  IF first = NotKept THEN first
  ELSE first @@ [l \in {items[i].link : i \in 1..Len(items)} \ DOMAIN first |-> c]

\* page call c has settled as res
PageDone(c, settled) ==
  LET g == <<c[1], c[2]>>
      offsets == Offsets(Pages(variant, c[1]))
      label == Label(variant, c[1], c[2], ToStr(expansion.queries[c[2]]))
  IN
  \E res \in {settled} :
  \E page1 \in {[page EXCEPT ![c] = res]} :
  \E gs1 \in {IF gs[g].st # "pending" THEN gs
             ELSE IF res.st = "rejected"
             THEN [gs EXCEPT ![g] = [st |-> "done", items |-> <<>>, rejected |-> TRUE]]
             ELSE IF \A j \in 1..Len(offsets) : page1[<<c[1], c[2], offsets[j]>>].st = "resolved"
             THEN [gs EXCEPT ![g] =
                     [st |-> "done",
                      items |-> Flat([j \in 1..Len(offsets) |->
                                        page1[<<c[1], c[2], offsets[j]>>].items]),
                      rejected |-> FALSE]]
             ELSE gs} :
  \E errs \in {IF gs[g].st = "pending" /\ res.st = "rejected"
                THEN Append(errors, ErrorEntry(variant, c[1],
                                               IF variant = "v1" THEN label
                                               ELSE ToStr(expansion.queries[c[2]])))
                ELSE errors} :
     /\ page' = page1
     /\ gs' = gs1
     /\ firstArrival' = Arrive(firstArrival, c, res.items)
     /\ errors' = errs
     /\ IF pc = "search" /\ \A h \in DOMAIN gs1 : gs1[h].st = "done"
        THEN AfterSearch(expansion, errs, gem, gs1)
        ELSE UNCHANGED <<dedupVars, gem, responses, pc, envRead>>
     /\ UNCHANGED <<variant, query, expansion, got, searchCalls, batchOut, clsVars, peer,
                    overtook, scrape>>

\* the search provider settles page call c.  A page that settles after
\* Promise.all of its googleSearch has rejected is read by nobody: its
\* outcome is not kept.
PageSettles(c) ==
  /\ page[c].st = "pending"
  /\ IF gs[<<c[1], c[2]>>].st # "pending"
     THEN PageDone(c, [st |-> "ignored", items |-> <<>>, threw |-> Undef])
     ELSE \/ \E k \in 1..Len(ThrownMenu) :
               /\ Thrown < MaxThrows
               /\ PageDone(c, [st |-> IF PageCatchThrows(ThrownMenu[k])
                                      THEN "rejected" ELSE "resolved",
                               items |-> <<>>, threw |-> ThrownMenu[k]])
          \/ PageDone(c, [st |-> "resolved", items |-> <<>>, threw |-> Undef])
          \/ \E k \in 1..Len(PageMenu) :
               /\ RawHits(page) + Len(PageMenu[k]) <= MaxRawHits
               /\ PageDone(c, [st |-> "resolved",
                               items |-> LabelHits(
                                 [i \in 1..Len(PageMenu[k]) |->
                                    ProviderHit(c, PageMenu[k][i])],
                                 Label(variant, c[1], c[2],
                                       ToStr(expansion.queries[c[2]]))),
                               threw |-> Undef])

Next ==
  \/ HandleRequest
  \/ \E p \in DOMAIN gem : PrimarySettles(p)
  \/ \E p \in DOMAIN gem : FallbackSettles(p)
  \/ \E c \in DOMAIN page : PageSettles(c)

Spec == Init /\ [][Next]_vars

(***************************************************************************)
(* The classifiers on candidate lists of every length: the handler stands  *)
(* before the classification with n Instagram candidates and, in the       *)
(* two-channel variant, m web candidates, all of distinct links.           *)
(***************************************************************************)
\* hit number i of channel ch
NumberedHit(ch, i) ==
  LabelHits(<<ProviderHit(<<ch, 1, 1>>, <<ch, "/", ToString(i)>>)>>,
            Label("v3", ch, 1, <<"q">>))[1]
NumberedHits(ch, n) == [i \in 1..n |-> NumberedHit(ch, i)]

BatchInit ==
  /\ variant \in Variants
  /\ query = Str(<<"q">>)
  /\ pc = "batch"
  /\ responses = <<>>
  /\ expansion = FallbackExpansion(variant, query.s)
  /\ errors = <<>>
  /\ gem = (ExpandPrompt :> [NewCall EXCEPT !.stage = "returned"])
  /\ got = (ExpandPrompt :> [threw |-> FALSE, raw |-> <<Junk>>])
  /\ searchCalls = Cardinality(SearchTriples(variant, Len(expansion.queries)))
  /\ page = EmptyMap
  /\ gs = EmptyMap
  /\ firstArrival = EmptyMap
  /\ \E n \in 0..MaxCandidates :
     \E m \in (IF variant = "v3" THEN {n, MaxCandidates - n} ELSE {0}) :
       /\ n + m > 0
       /\ allIgItems = NumberedHits("ig", n)
       /\ allWebItems = NumberedHits("web", m)
       /\ uniqueIgItems = [i \in 1..n |-> Candidate(NumberedHit("ig", i), TRUE)]
       /\ uniqueWebItems = [i \in 1..m |-> Candidate(NumberedHit("web", i), FALSE)]
       /\ seenUrls = {allIgItems[i].link : i \in 1..n} \cup
                     {allWebItems[i].link : i \in 1..m}
  /\ batches = EmptyMap
  /\ batchOut = EmptyMap
  /\ igClassified = <<>>
  /\ webExtracted = <<>>
  /\ mergedResults = <<>>
  /\ finalResults = <<>>
  /\ envRead = NotRead
  /\ peer = NoPeer
  /\ overtook = {}
  /\ scrape = NoScrape

\* classifyResults / classifyInstagramResults and extractFromWebResults up
\* to their await
ClassifyCandidates ==
  /\ pc = "batch"
  /\ StartClassify(uniqueIgItems, uniqueWebItems, gem)
  /\ UNCHANGED <<variant, query, responses, expansion, errors, got, searchVars,
                 allIgItems, allWebItems, seenUrls, uniqueIgItems, uniqueWebItems,
                 batchOut, clsVars, envRead, peer, overtook, scrape>>

BatchNext == ClassifyCandidates

BatchSpec == BatchInit /\ [][BatchNext]_vars

(***************************************************************************)
(* Two requests in flight on one server.  The variables are the locals of  *)
(* the invocation of the handler that runs, peer holds those of the other  *)
(* one, which stands at an await or has not started; the event loop may    *)
(* run either after every step.  Nothing but the server file is common to  *)
(* the two: the handler declares errors, seenUrls and the lists itself.    *)
(***************************************************************************)
\* the locals of the invocation that runs, for request number id
Locals(id) ==
  [id |-> id, query |-> query, pc |-> pc, responses |-> responses,
   expansion |-> expansion, errors |-> errors, gem |-> gem, got |-> got,
   searchCalls |-> searchCalls, page |-> page, gs |-> gs,
   firstArrival |-> firstArrival, allIgItems |-> allIgItems,
   allWebItems |-> allWebItems, seenUrls |-> seenUrls,
   uniqueIgItems |-> uniqueIgItems, uniqueWebItems |-> uniqueWebItems,
   batches |-> batches, batchOut |-> batchOut, igClassified |-> igClassified,
   webExtracted |-> webExtracted, mergedResults |-> mergedResults,
   finalResults |-> finalResults, envRead |-> envRead, overtook |-> overtook]
\* the number of the request that runs
Running == 3 - peer.id

PairInit ==
  /\ variant \in Variants
  /\ query = Str(<<"q">>)
  /\ pc = "start"
  /\ responses = <<>>
  /\ expansion = NoExpansion
  /\ errors = <<>>
  /\ gem = EmptyMap
  /\ got = EmptyMap
  /\ searchCalls = 0
  /\ page = EmptyMap
  /\ gs = EmptyMap
  /\ firstArrival = EmptyMap
  /\ allIgItems = <<>>
  /\ allWebItems = <<>>
  /\ seenUrls = {}
  /\ uniqueIgItems = <<>>
  /\ uniqueWebItems = <<>>
  /\ batches = EmptyMap
  /\ batchOut = EmptyMap
  /\ igClassified = <<>>
  /\ webExtracted = <<>>
  /\ mergedResults = <<>>
  /\ finalResults = <<>>
  /\ envRead = NotRead
  /\ overtook = {}
  /\ peer = Locals(2)
  /\ scrape = NoScrape

\* an event loop that keeps one errors array for both invocations
SwitchSharedErrors ==
  /\ peer # NoPeer
  /\ peer' = Locals(Running)
  /\ query' = peer.query
  /\ pc' = peer.pc
  /\ responses' = peer.responses
  /\ expansion' = peer.expansion
  /\ gem' = peer.gem
  /\ got' = peer.got
  /\ searchCalls' = peer.searchCalls
  /\ page' = peer.page
  /\ gs' = peer.gs
  /\ firstArrival' = peer.firstArrival
  /\ allIgItems' = peer.allIgItems
  /\ allWebItems' = peer.allWebItems
  /\ seenUrls' = peer.seenUrls
  /\ uniqueIgItems' = peer.uniqueIgItems
  /\ uniqueWebItems' = peer.uniqueWebItems
  /\ batches' = peer.batches
  /\ batchOut' = peer.batchOut
  /\ igClassified' = peer.igClassified
  /\ webExtracted' = peer.webExtracted
  /\ mergedResults' = peer.mergedResults
  /\ finalResults' = peer.finalResults
  /\ envRead' = peer.envRead
  /\ overtook' = peer.overtook
  /\ UNCHANGED <<variant, errors, scrape>>

\* the event loop turns to the other invocation
Switch ==
  /\ peer # NoPeer
  /\ peer' = Locals(Running)
  /\ query' = peer.query
  /\ pc' = peer.pc
  /\ responses' = peer.responses
  /\ expansion' = peer.expansion
  /\ errors' = peer.errors
  /\ gem' = peer.gem
  /\ got' = peer.got
  /\ searchCalls' = peer.searchCalls
  /\ page' = peer.page
  /\ gs' = peer.gs
  /\ firstArrival' = peer.firstArrival
  /\ allIgItems' = peer.allIgItems
  /\ allWebItems' = peer.allWebItems
  /\ seenUrls' = peer.seenUrls
  /\ uniqueIgItems' = peer.uniqueIgItems
  /\ uniqueWebItems' = peer.uniqueWebItems
  /\ batches' = peer.batches
  /\ batchOut' = peer.batchOut
  /\ igClassified' = peer.igClassified
  /\ webExtracted' = peer.webExtracted
  /\ mergedResults' = peer.mergedResults
  /\ finalResults' = peer.finalResults
  /\ envRead' = peer.envRead
  /\ overtook' = peer.overtook
  /\ UNCHANGED <<variant, scrape>>

\* what the providers do in the runs of two requests: the expansion model
\* returns text that is no JSON, a classification model returns its
\* well-formed text, and the primary one may throw for request 1 only; a
\* first page returns the one link, every other page returns nothing or,
\* for request 1, the second page throws a value without message
PairEnv ==
  /\ \A p \in DOMAIN got :
       /\ ~got[p].threw
       /\ got[p].raw = (IF p = ExpandPrompt THEN ExpandTexts[1] ELSE PrimaryTexts(p)[2])
  /\ \A p \in DOMAIN gem :
       gem[p].stage = "fallback" => (Running = 1 /\ p # ExpandPrompt)
  /\ \A c \in DOMAIN page :
       /\ page[c].threw # Undef =>
            (Running = 1 /\ c[3] = 11 /\ page[c].threw = ThrownMenu[3])
       /\ (page[c].st = "resolved" /\ page[c].threw = Undef) =>
            Len(page[c].items) = (IF c[3] = 1 THEN 1 ELSE 0)
  /\ envRead \in {NotRead, Env(Str(<<"k1">>), Str(<<"k2">>), Str(<<"cx">>))}

PairNext ==
  \/ Switch
  \/ Next /\ PairEnv'

PairSpec == PairInit /\ [][PairNext]_vars

(***************************************************************************)
(* The classification of candidate lists of more than one batch: the       *)
(* handler stands before the classification with one candidate more than   *)
(* a batch holds in each channel it has, and the batch calls settle in any *)
(* order.  The requests of Init run as well.                               *)
(***************************************************************************)
OrderInit ==
  /\ variant \in Variants
  /\ query = Str(<<"q">>)
  /\ pc = "batch"
  /\ responses = <<>>
  /\ expansion = FallbackExpansion(variant, query.s)
  /\ errors = <<>>
  /\ gem = (ExpandPrompt :> [NewCall EXCEPT !.stage = "returned"])
  /\ got = (ExpandPrompt :> [threw |-> FALSE, raw |-> <<Junk>>])
  /\ searchCalls = Cardinality(SearchTriples(variant, Len(expansion.queries)))
  /\ page = EmptyMap
  /\ gs = EmptyMap
  /\ firstArrival = EmptyMap
  /\ \E n \in {BATCH_SIZE + 1} :
     \E m \in (IF variant = "v3" THEN {WEB_BATCH_SIZE + 1} ELSE {0}) :
       /\ allIgItems = NumberedHits("ig", n)
       /\ allWebItems = NumberedHits("web", m)
       /\ uniqueIgItems = [i \in 1..n |-> Candidate(NumberedHit("ig", i), TRUE)]
       /\ uniqueWebItems = [i \in 1..m |-> Candidate(NumberedHit("web", i), FALSE)]
       /\ seenUrls = {allIgItems[i].link : i \in 1..n} \cup
                     {allWebItems[i].link : i \in 1..m}
  /\ batches = EmptyMap
  /\ batchOut = EmptyMap
  /\ igClassified = <<>>
  /\ webExtracted = <<>>
  /\ mergedResults = <<>>
  /\ finalResults = <<>>
  /\ envRead = NotRead
  /\ peer = NoPeer
  /\ overtook = {}
  /\ scrape = NoScrape

AnyInit == Init \/ OrderInit

OrderNext ==
  \/ Next
  \/ ClassifyCandidates

OrderSpec == AnyInit /\ [][OrderNext]_vars

(***************************************************************************)
(* The bulk-scrape script: collectUsernamesFromHashtags.  The scraping     *)
(* service is the environment: for a hashtag it returns posts or throws.   *)
(* usernames is the Set in insertion order.                                *)
(***************************************************************************)
KNOWN_HANDLES ==
  << <<"solemates__runclub">>, <<"on.the.move.runclub">>, <<"vizagruncollective">>,
     <<"culture.runclub_">> >>
\* the first hashtags of the list
CITY_HASHTAGS ==
  SubSeq(<< "vizagrunners", "vizagruncollective", "onthemove", "runclub",
            "vizagrunclub", "runandrave", "communityrun", "solemates" >>,
         1, MaxHashtags)

\* a post of the hashtag scraper
Post(ownerUsername, ownerProfile) ==
  [k |-> "object", ownerUsername |-> ownerUsername, ownerProfile |-> ownerProfile]
Profile(username) == [k |-> "object", username |-> username]
\* what the service may do for one hashtag: throw an Error, throw a value
\* without message, or return posts
ScrapeOutcomes ==
  { [threw |-> TRUE, e |-> ErrorObj(<<"actor run failed">>), items |-> <<>>],
    [threw |-> TRUE, e |-> Str(<<"timeout">>), items |-> <<>>],
    [threw |-> FALSE, e |-> Undef, items |-> <<>>],
    [threw |-> FALSE, e |-> Undef,
     items |-> << Post(Str(<<"u1">>), Undef), Post(Str(KNOWN_HANDLES[1]), Undef) >>],
    [threw |-> FALSE, e |-> Undef,
     items |-> << Post(Str(<<"u1">>), Undef), Post(Undef, Profile(Str(<<"u2">>))),
                  Post(Undef, Undef) >>],
    [threw |-> FALSE, e |-> Undef,
     items |-> << Post(Str(<<"u3">>), Undef), JNull, Post(Str(<<"u4">>), Undef) >>] }

\* a && b
And(a, b) == IF Truthy(a) THEN b ELSE a
\* post.ownerUsername || (post.ownerProfile && post.ownerProfile.username)
OwnerUsername(post) ==
  Or(Get(post, "ownerUsername"),
     And(Get(post, "ownerProfile"), Get(Get(post, "ownerProfile"), "username")))

\* for (const post of items) { if (username && !usernames.has(username)) add }
\* the loop is left with a TypeError at a post that is null or undefined
AddPosts(usernames0, items) ==
  LET F[n \in 0..Len(items)] ==
        IF n = 0 THEN [threw |-> FALSE, usernames |-> usernames0]
        ELSE IF F[n - 1].threw THEN F[n - 1]
        ELSE IF Nullish(items[n]) THEN [F[n - 1] EXCEPT !.threw = TRUE]
        ELSE LET username == OwnerUsername(items[n])
             IN IF Truthy(username)
                   /\ ~\E j \in 1..Len(F[n - 1].usernames) :
                         F[n - 1].usernames[j] = username.s
                THEN [F[n - 1] EXCEPT !.usernames = Append(@, username.s)]
                ELSE F[n - 1]
  IN F[Len(items)]

\* the catch block: error.message.substring(0, 50) throws a TypeError when
\* error is null or undefined or error.message is no string
ScrapeCatchThrows(e) == Nullish(e) \/ Get(e, "message").k # "string"

\* one iteration of the loop over CITY_HASHTAGS, the service doing o
ScanStep(st, o) ==
  LET fold == AddPosts(st.usernames, o.items)
      failed == o.threw \/ fold.threw
      caught == IF o.threw THEN o.e ELSE ErrorObj(<<"TypeError">>)
      entry == [hashtag |-> CITY_HASHTAGS[st.i + 1], failed |-> failed,
                items |-> o.items, usernames |-> fold.usernames]
  IN IF ~failed
     THEN [st EXCEPT !.usernames = fold.usernames, !.successCount = @ + 1,
                     !.i = @ + 1, !.log = Append(@, entry)]
     ELSE IF ScrapeCatchThrows(caught)
     THEN [st EXCEPT !.usernames = fold.usernames, !.pc = "rejected",
                     !.log = Append(@, entry)]
     ELSE [st EXCEPT !.usernames = fold.usernames, !.failCount = @ + 1,
                     !.i = @ + 1, !.log = Append(@, entry)]

ScrapeInit ==
  /\ variant = "v3"
  /\ query = Undef
  /\ pc = "start"
  /\ responses = <<>>
  /\ expansion = NoExpansion
  /\ errors = <<>>
  /\ gem = EmptyMap
  /\ got = EmptyMap
  /\ searchCalls = 0
  /\ page = EmptyMap
  /\ gs = EmptyMap
  /\ firstArrival = EmptyMap
  /\ allIgItems = <<>>
  /\ allWebItems = <<>>
  /\ seenUrls = {}
  /\ uniqueIgItems = <<>>
  /\ uniqueWebItems = <<>>
  /\ batches = EmptyMap
  /\ batchOut = EmptyMap
  /\ igClassified = <<>>
  /\ webExtracted = <<>>
  /\ mergedResults = <<>>
  /\ finalResults = <<>>
  /\ envRead = NotRead
  /\ peer = NoPeer
  /\ overtook = {}
  /\ scrape = [pc |-> "scan", i |-> 0, usernames |-> KNOWN_HANDLES,
               successCount |-> 0, failCount |-> 0, log |-> <<>>, result |-> <<>>]

\* the body of the for loop for CITY_HASHTAGS[i]
ScanHashtag ==
  /\ scrape.pc = "scan"
  /\ scrape.i < Len(CITY_HASHTAGS)
  /\ \E o \in ScrapeOutcomes : scrape' = ScanStep(scrape, o)
  /\ UNCHANGED serverVars

\* return Array.from(usernames)
ReturnUsernames ==
  /\ scrape.pc = "scan"
  /\ scrape.i = Len(CITY_HASHTAGS)
  /\ scrape' = [scrape EXCEPT !.pc = "returned", !.result = scrape.usernames]
  /\ UNCHANGED serverVars

ScrapeNext ==
  \/ ScanHashtag
  \/ ReturnUsernames

ScrapeSpec == ScrapeInit /\ [][ScrapeNext]_vars

\* the same request; the arrivals, which no liveness property reads, are
\* not recorded
FairInit == Fresh(NotKept)

\* every call given to a provider settles, and the handler runs when it can
FairSpec == FairInit /\ [][Next]_vars /\ WF_vars(Next)

(***************************************************************************)
(* Properties.                                                             *)
(***************************************************************************)
\* the candidates and the raw hits in the order they are folded
Candidates == uniqueIgItems \o uniqueWebItems
RawHitList == allIgItems \o allWebItems
RawLinks == {RawHitList[i].link : i \in 1..Len(RawHitList)}
Deduplicated == pc \in {"classify", "done"} /\ Truthy(query)
Expanded == pc \in {"search", "classify", "done"} /\ Truthy(query)
\* the first raw hit that bears link l
FirstHit(l) ==
  RawHitList[CHOOSE i \in 1..Len(RawHitList) :
               /\ RawHitList[i].link = l
               /\ \A j \in 1..(i - 1) : RawHitList[j].link # l]

\* C1: after deduplication no two candidates have the same link and there
\* are as many candidates as distinct links among the raw hits; in v3 this
\* holds over uniqueIgItems and uniqueWebItems together
C1_OneCandidatePerLink ==
  /\ \A i, j \in 1..Len(Candidates) :
       i # j => Candidates[i].link # Candidates[j].link
  /\ Len(Candidates) = Cardinality(RawLinks)
  /\ {Candidates[i].link : i \in 1..Len(Candidates)} = RawLinks

\* v3 has folded a link that both channels returned, and a web candidate
C1_Witness ==
  /\ variant = "v3"
  /\ Deduplicated
  /\ uniqueWebItems # <<>>
  /\ \E i \in 1..Len(allIgItems) : \E j \in 1..Len(allWebItems) :
       allIgItems[i].link = allWebItems[j].link

\* C2: the retained candidate of a link has the title, snippet, description,
\* image and phrase label computed from the first raw hit with that link
C2_FirstHitWins ==
  \A i \in 1..Len(Candidates) :
    LET u == Candidates[i]
        h == FirstHit(u.link)
    IN /\ u.title = h.title
       /\ u.snippet = h.snippet
       /\ u.sourceQuery = h.searchQuery
       /\ u.ogDescription = (IF h.ogDescription.k = "string" /\ h.ogDescription.s # <<>>
                             THEN h.ogDescription ELSE Str(<<>>))
       /\ "logoUrl" \in DOMAIN u =>
            u.logoUrl = (IF h.ogImage.k = "string" /\ h.ogImage.s # <<>> THEN h.ogImage
                         ELSE IF h.cseImage.k = "string" /\ h.cseImage.s # <<>>
                         THEN h.cseImage ELSE JNull)

\* a link was returned twice, the second time with another snippet, other
\* metadata and another phrase label
C2_Witness ==
  /\ Deduplicated
  /\ \E i, j \in 1..Len(RawHitList) :
       /\ i < j
       /\ RawHitList[i].link = RawHitList[j].link
       /\ RawHitList[i].snippet # RawHitList[j].snippet
       /\ RawHitList[i].ogImage # RawHitList[j].ogImage
       /\ RawHitList[i].searchQuery # RawHitList[j].searchQuery

\* C3: a request with a non-empty query is answered with a success response
\* and never with status 500; only a missing query gets an error response
C3_NeverFails ==
  \A i \in 1..Len(responses) :
    responses[i].status = (IF Truthy(query) THEN 200 ELSE 400)

\* C4: when every provider call settles, the request sends a response, and
\* it never sends a second one
C4_ExactlyOneResponse ==
  /\ <>(Len(responses) = 1)
  /\ [](Len(responses) <= 1)

\* the outer catch has answered a request whose classification had run
C4_Witness ==
  /\ pc = "done"
  /\ batchOut # EmptyMap
  /\ Len(responses) = 1
  /\ responses[1].status = 500

\* C5: after the join, the hits of every page that returned are in the raw
\* hit list, whatever another page threw
C5_OtherPagesKept ==
  Deduplicated =>
    \A c \in DOMAIN page :
      page[c].st = "resolved" =>
        \A i \in 1..Len(page[c].items) :
          \E j \in 1..Len(RawHitList) : RawHitList[j] = page[c].items[i]

\* the classification of the batch of prompt p failed
BatchFailed(p) == got[p].threw \/ JsonParse(Clean(got[p].raw)).threw
Classified == igClassified \o webExtracted

\* C6: a batch whose classification failed contributes no entity, the
\* entities of every other batch are in the classifiers' results, and the
\* request is answered with a success response
C6_BatchFailureIsolated ==
  (pc = "done" /\ batchOut # EmptyMap) =>
    \A p \in DOMAIN batches :
      BatchFailed(p) =>
        /\ batchOut[p] = Arr(<<>>)
        /\ \A q \in DOMAIN batches \ {p} :
             batchOut[q].k = "array" =>
               \A i \in 1..Len(batchOut[q].a) :
                 \E j \in 1..Len(Classified) : Classified[j] = batchOut[q].a[i]
        /\ responses[1].status = 200

UsableExpansion(raw) ==
  LET docs == {i \in 1..Len(raw) : raw[i].t \notin {"fence", "fence-json"}}
  IN /\ Cardinality(docs) = 1
     /\ \A i \in docs :
          /\ raw[i].t = "json"
          /\ raw[i].v.k = "object"
          /\ raw[i].v.queries.k = "array"

\* s is userQuery with one fixed piece put before or after it
IsVariantOf(s, userQuery) ==
  /\ Len(s) = Len(userQuery) + 1
  /\ \/ SubSeq(s, 1, Len(userQuery)) = userQuery
     \/ SubSeq(s, 2, Len(s)) = userQuery

C9_AtLeastOnePhrase ==
  Expanded => (Len(expansion.queries) >= 1 /\ searchCalls >= 1)

HasHandle(r) == Get(r, "handle").k = "string" /\ Get(r, "handle").s # <<>>
\* C10: in the results of v3 no two entities with a handle have the same
\* handle, and no two entities without a handle have the same name, both
\* compared without case
C10_ResultsUnique ==
  (variant = "v3" /\ pc = "done" /\ Truthy(query) /\ responses[1].status = 200) =>
    LET rs == responses[1].results
    IN \A i, j \in 1..Len(rs) :
         i < j =>
           /\ (HasHandle(rs[i]) /\ HasHandle(rs[j])) =>
                ToLowerCase(rs[i].handle.s) # ToLowerCase(rs[j].handle.s)
           /\ (~HasHandle(rs[i]) /\ ~HasHandle(rs[j])
               /\ rs[i].name.k = "string" /\ rs[j].name.k = "string") =>
                ToLowerCase(rs[i].name.s) # ToLowerCase(rs[j].name.s)

\* the merge of the two-channel variant has run to its end
MergeDone ==
  /\ variant = "v3"
  /\ pc = "done"
  /\ batchOut # EmptyMap
  /\ ~Merge(igClassified, webExtracted).threw
\* what the merge appended to the Instagram-classified entities
WebTail == SubSeq(mergedResults, Len(igClassified) + 1, Len(mergedResults))
LowerHandle(r) == ToLowerCase(Get(r, "handle").s)
\* web entity j has a handle that no Instagram entity and no earlier web
\* entity has, cases ignored; has(r) says which entities have a handle
NovelHandle(j, has(_)) ==
  /\ has(webExtracted[j])
  /\ \A i \in 1..Len(igClassified) :
       has(igClassified[i]) => LowerHandle(igClassified[i]) # LowerHandle(webExtracted[j])
  /\ \A k \in 1..(j - 1) :
       has(webExtracted[k]) => LowerHandle(webExtracted[k]) # LowerHandle(webExtracted[j])
\* the web entities with a novel handle, in order
NovelHandles(has(_)) ==
  LET F[j \in 0..Len(webExtracted)] ==
        IF j = 0 THEN <<>>
        ELSE IF NovelHandle(j, has) THEN Append(F[j - 1], webExtracted[j])
        ELSE F[j - 1]
  IN F[Len(webExtracted)]
NonNullHandle(r) == Get(r, "handle").k = "string"

WellTyped(r) ==
  /\ r.k = "object"
  /\ Get(r, "handle").k \in {"string", "null", "undefined"}
  /\ Get(r, "name").k \in {"string", "null", "undefined"}
AllWellTyped ==
  /\ \A i \in 1..Len(igClassified) : WellTyped(igClassified[i])
  /\ \A j \in 1..Len(webExtracted) : WellTyped(webExtracted[j])
SameName(r, nameKey) ==
  Get(r, "name").k = "string" /\ ToLowerCase(Get(r, "name").s) = nameKey
\* the merged list the two rules describe: a web entity with a handle is
\* appended when its handle is new, one with a name only when no entity of
\* the list so far has that name
RuleMerge ==
  LET F[j \in 0..Len(webExtracted)] ==
        IF j = 0 THEN igClassified
        ELSE LET w == webExtracted[j]
                 sofar == F[j - 1]
             IN IF HasHandle(w)
                THEN IF \E i \in 1..Len(sofar) :
                          HasHandle(sofar[i]) /\ LowerHandle(sofar[i]) = LowerHandle(w)
                     THEN sofar ELSE Append(sofar, w)
                ELSE IF Truthy(Get(w, "name"))
                        /\ ~\E i \in 1..Len(sofar) :
                              SameName(sofar[i], ToLowerCase(Get(w, "name").s))
                THEN Append(sofar, w)
                ELSE sofar
  IN F[Len(webExtracted)]

\* C12: a web entity with a name and no handle is appended if and only if
\* no entity of the merged list so far has its name, cases ignored, whatever
\* the merged list holds, entities without a name included
C12_NameAppendedIffNovel ==
  (variant = "v3" /\ pc = "done" /\ batchOut # EmptyMap /\ AllWellTyped) =>
    /\ responses[1].status = 200
    /\ mergedResults = RuleMerge

\* C13: the merged list starts with the Instagram-classified entities,
\* each unchanged and in its place, whatever the web-extracted list holds
C13_PrimaryIsPrefix ==
  MergeDone =>
    /\ Len(mergedResults) >= Len(igClassified)
    /\ SubSeq(mergedResults, 1, Len(igClassified)) = igClassified

\* a merge of a non-empty primary list with a secondary list of which one
\* entity was appended and one, having a primary's handle, was dropped
C13_Witness ==
  /\ MergeDone
  /\ igClassified # <<>>
  /\ WebTail # <<>>
  /\ \E j \in 1..Len(webExtracted) : \E i \in 1..Len(igClassified) :
       /\ HasHandle(webExtracted[j])
       /\ HasHandle(igClassified[i])
       /\ LowerHandle(webExtracted[j]) = LowerHandle(igClassified[i])

\* the request was answered with the results of a classification
Answered == pc = "done" /\ batchOut # EmptyMap /\ responses[1].status = 200
\* the entities before the logo re-attachment
Entities == IF variant = "v3" THEN mergedResults ELSE igClassified
\* candidate u matches entity r: its link is r's url, or contains r's
\* handle without the '@'
Matches(u, r) ==
  \/ Get(r, "url").k = "string" /\ u.link = Get(r, "url").s
  \/ Get(r, "handle").k = "string"
     /\ Includes(u.link, ReplaceFirst(Get(r, "handle").s, "@"))
\* the logo the rule gives entity r
RuleLogo(r) ==
  LET ms == {i \in 1..Len(Candidates) : Matches(Candidates[i], r)}
  IN IF Truthy(Get(r, "logo")) THEN Get(r, "logo")
     ELSE IF ms = {} THEN JNull
     ELSE LET u == Candidates[CHOOSE i \in ms : \A j \in ms : i <= j]
          IN IF "logoUrl" \in DOMAIN u /\ Truthy(u.logoUrl) THEN u.logoUrl ELSE JNull

DebugErrors ==
  IF "debug" \in DOMAIN responses[1] /\ responses[1].debug.k = "object"
  THEN responses[1].debug.errors ELSE <<>>
\* an entry that reports a failed search
IsSearchEntry(e) ==
  e # <<>> /\ e[1] \in {"Search [", "IG Search [", "Web Search [", "IG [", "WEB ["}
\* an entry that reports a failed classification: none of the other kinds
IsBatchEntry(e) ==
  ~IsSearchEntry(e) /\ e # DefaultError /\ e # <<"Query Expansion: ">>

\* C15: when a search page call of the request threw, the success response
\* has debug.errors with an entry for a failed search
C15_PageFailureReported ==
  (pc = "done" /\ Truthy(query) /\ responses[1].status = 200
   /\ \E c \in DOMAIN page : page[c].threw # Undef) =>
    \E i \in 1..Len(DebugErrors) : IsSearchEntry(DebugErrors[i])

\* C16: when the classification of a batch failed, the success response
\* has debug.errors with an entry for that failure
C16_BatchFailureReported ==
  (Answered /\ \E p \in DOMAIN batches : BatchFailed(p)) =>
    \E i \in 1..Len(DebugErrors) : IsBatchEntry(DebugErrors[i])

Present(v) == v.k = "string" /\ v.s # <<>>
\* C17: when no candidate survives search and deduplication, the request
\* is answered with a success response with no results, candidates_scanned
\* 0, a non-empty debug.errors, and an env_check that tells for each of the
\* three configuration values whether it is set
C17_ZeroCandidatesResponse ==
  (Deduplicated /\ Candidates = <<>>) =>
    /\ pc = "done"
    /\ Len(responses) = 1
    /\ responses[1].status = 200
    /\ responses[1].results = <<>>
    /\ responses[1].meta.candidates_scanned = 0
    /\ responses[1].debug.errors # <<>>
    /\ envRead \in Envs
    /\ DOMAIN responses[1].debug.env_check =
         {"GEMINI_API_KEY", "GOOGLE_SEARCH_API_KEY", "GOOGLE_SEARCH_CX"}
    /\ \A x \in DOMAIN responses[1].debug.env_check :
         responses[1].debug.env_check[x] = Bool(Present(envRead[x]))

\* every page call that was awaited threw or was abandoned, no search
\* entry was recorded, and one configuration value is not set
C17_Witness ==
  /\ Deduplicated
  /\ Candidates = <<>>
  /\ page # EmptyMap
  /\ \A c \in DOMAIN page : page[c].st \in {"rejected", "ignored"}
  /\ \E x \in DOMAIN envRead : responses[1].debug.env_check[x] = Bool(FALSE)

\* the page calls the claim describes for n phrases in a variant that has
\* both strategies
ClaimedTriples(v, n) ==
  {c \in {"ig", "web"} \X (1..n) \X {Offsets(3)[j] : j \in 1..3} :
     \E j \in 1..Pages(v, c[1]) : c[3] = Offsets(Pages(v, c[1]))[j]}

\* C18: each of the N phrases is searched under both strategies, once per
\* page of the strategy's budget, the Instagram budget being the larger
C18_OneCallPerTriple ==
  (Expanded /\ variant # "v1") =>
    /\ searchCalls = Cardinality(ClaimedTriples(variant, Len(expansion.queries)))
    /\ Pages(variant, "ig") > Pages(variant, "web")

Ceil(n, size) == (n + size - 1) \div size
\* the batches of the prompts of one classifier, in order
BatchesOf(kind) ==
  [b \in 1..Cardinality({p \in DOMAIN batches : p[1] = kind}) |-> batches[<<kind, b>>]]
\* bs are ceil(n/size) slices of cs in order, all of length size but the last
IsPartition(bs, cs, size) ==
  /\ Len(bs) = Ceil(Len(cs), size)
  /\ Flat(bs) = cs
  /\ \A b \in 1..Len(bs) :
       /\ Len(bs[b]) >= 1
       /\ Len(bs[b]) <= size
       /\ b < Len(bs) => Len(bs[b]) = size

\* C19: a classifier cuts its n candidates into ceil(n/L) contiguous
\* batches that concatenate to the candidate list, every batch but the last
\* of L candidates (L = 40, 30 for the web extractor), and calls the
\* primary model once for each batch and for nothing else
C19_BatchesPartition ==
  pc = "classify" =>
    /\ \A p \in DOMAIN batches :
         /\ p[1] \in {"classify", "extract"}
         /\ p[2] \in 1..Len(BatchesOf(p[1]))
    /\ IsPartition(BatchesOf("classify"), uniqueIgItems, BATCH_SIZE)
    /\ IsPartition(BatchesOf("extract"), uniqueWebItems, WEB_BATCH_SIZE)
    /\ DOMAIN gem = DOMAIN batches \cup {ExpandPrompt}
    /\ \A p \in DOMAIN batches : gem[p].primaryCalls = 1

\* more than two full batches of Instagram candidates and more than one of
\* web candidates, and a last batch that is not full
C19_Witness ==
  /\ pc = "classify"
  /\ Len(uniqueIgItems) > 2 * BATCH_SIZE
  /\ Len(BatchesOf("classify")) = 3
  /\ Len(BatchesOf("classify")[3]) < BATCH_SIZE
  /\ Len(uniqueWebItems) > WEB_BATCH_SIZE
  /\ Len(BatchesOf("extract")) >= 2

\* C20: meta.candidates_scanned of a response is the number of candidates
\* handed to classification, which is the number of distinct links among
\* the raw hits
C20_CandidatesScanned ==
  \A i \in 1..Len(responses) :
    "meta" \in DOMAIN responses[i] =>
      /\ responses[i].meta.candidates_scanned = Len(Candidates)
      /\ responses[i].meta.candidates_scanned = Cardinality(RawLinks)

\* three hits with two distinct links, a classifier that returned two
\* entities: two results, candidates_scanned 2
C20_Witness ==
  /\ Answered
  /\ Len(RawHitList) = 3
  /\ Cardinality(RawLinks) = 2
  /\ Len(igClassified) + Len(webExtracted) = 2
  /\ Len(responses[1].results) = 2
  /\ responses[1].meta.candidates_scanned = 2

\* the batch promises of both classifiers have all settled
BatchesSettled ==
  /\ DOMAIN batchOut = DOMAIN batches
  /\ \A p \in DOMAIN batches : gem[p].stage \in {"returned", "threw"}
\* a classification prompt was given to a model
ClassificationCalled == DOMAIN gem \ {ExpandPrompt} # {}
\* the fold has started: the seen-set or a candidate list exists
Folded == pc \in {"classify", "done"} /\ Truthy(query)

\* C21: the stages of a request are strictly ordered: no search call before
\* expandQuery has settled, no hit folded before every search page call has
\* settled, no classification model call before the deduplication is done,
\* merge and re-attachment only after every batch of both classifiers has
\* settled, and the response only after that
C21_StagesOrdered ==
  /\ searchCalls > 0 =>
       (ExpandPrompt \in DOMAIN got /\ gem[ExpandPrompt].stage \in {"returned", "threw"})
  /\ Folded => \A c \in DOMAIN page : page[c].st # "pending"
  /\ ClassificationCalled => Folded
  /\ (mergedResults # <<>> \/ finalResults # <<>>) => BatchesSettled
  /\ (Truthy(query) /\ responses # <<>>) =>
       (Folded /\ pc = "done" /\ BatchesSettled)

LinksOf(items) == {items[i].link : i \in 1..Len(items)}
\* the links that hits of both channels bear
BothChannels == LinksOf(allIgItems) \cap LinksOf(allWebItems)
\* the channels link l is a candidate of
ChannelsOf(l) ==
  {ch \in {"ig", "web"} :
     l \in LinksOf(IF ch = "ig" THEN uniqueIgItems ELSE uniqueWebItems)}
\* the classifiers that were given a candidate with link l
ClassifiersOf(l) == {p[1] : p \in {q \in DOMAIN batches : l \in LinksOf(batches[q])}}
ClassifierOf(ch) == IF ch = "ig" THEN "classify" ELSE "extract"

\* C22 as stated: in the two-channel variant a link that both channels
\* returned is a candidate of the one channel whose page call returned it
\* first, and is given to that channel's classifier only
C22_FirstArrivedChannel ==
  (variant = "v3" /\ Folded) =>
    \A l \in BothChannels :
      /\ ChannelsOf(l) = {firstArrival[l][1]}
      /\ ClassifiersOf(l) = {ClassifierOf(firstArrival[l][1])}

\* C22 amended: in the two-channel variant a link that both channels
\* returned is a candidate of the Instagram channel only, whichever page
\* call returned it first, and is given to the Instagram classifier only
C22_InstagramChannelOnly ==
  (variant = "v3" /\ Folded) =>
    \A l \in BothChannels :
      /\ ChannelsOf(l) = {"ig"}
      /\ ClassifiersOf(l) = {"classify"}

\* a link that the web channel returned before the Instagram channel did
\* has been handed to a classifier
C22_Witness ==
  /\ variant = "v3"
  /\ pc = "classify"
  /\ \E l \in BothChannels :
       /\ firstArrival[l][1] = "web"
       /\ ClassifiersOf(l) # {}

\* page call c stands before page call d in the fan-out: Instagram before
\* web, then by phrase index, then by offset
Before(c, d) ==
  \/ c[1] = "ig" /\ d[1] = "web"
  \/ c[1] = d[1] /\ c[2] < d[2]
  \/ c[1] = d[1] /\ c[2] = d[2] /\ c[3] < d[3]
\* the page calls whose items the join kept and that returned link l
KeptCalls(l) ==
  {c \in DOMAIN page :
     /\ page[c].st = "resolved"
     /\ ~gs[<<c[1], c[2]>>].rejected
     /\ l \in LinksOf(page[c].items)}
\* the first of them in the fan-out
FirstCall(l) == CHOOSE c \in KeptCalls(l) : \A d \in KeptCalls(l) \ {c} : Before(c, d)
\* the hit with link l that page call c returned
HitOf(c, l) ==
  page[c].items[CHOOSE i \in 1..Len(page[c].items) :
                  /\ page[c].items[i].link = l
                  /\ \A j \in 1..(i - 1) : page[c].items[j].link # l]
\* candidate u was computed from hit h
ComputedFrom(u, h) ==
  /\ u.title = h.title
  /\ u.snippet = h.snippet
  /\ u.sourceQuery = h.searchQuery
  /\ u.ogDescription = Or(h.ogDescription, Str(<<>>))
  /\ "logoUrl" \in DOMAIN u => u.logoUrl = Or(h.ogImage, Or(h.cseImage, JNull))
NoneRejected == \A g \in DOMAIN gs : ~gs[g].rejected

ErrorsIn(response) ==
  IF "debug" \in DOMAIN response /\ response.debug.k = "object"
  THEN response.debug.errors ELSE <<>>
\* the pipeline state r of one request comes from its own provider calls
\* only and o, that of the other request, has left nothing in it
Isolated(r, o) ==
  LET raw == LinksOf(r.allIgItems \o r.allWebItems)
      kept == UNION {LinksOf(r.gs[g].items) : g \in DOMAIN r.gs}
      failed == {g \in DOMAIN r.gs : r.gs[g].rejected}
  IN /\ r.seenUrls = raw
     /\ LinksOf(r.uniqueIgItems \o r.uniqueWebItems) = raw
     /\ r.pc \in {"classify", "done"} => raw = kept
     /\ Len(r.errors) = Cardinality(failed)
     /\ \A i \in 1..Len(r.responses) :
          ErrorsIn(r.responses[i]) \in {<<>>, <<DefaultError>>, r.errors}

\* C24: two requests in flight at the same time, interleaved at any of
\* their awaits, share no pipeline state: the seen-set and the candidates of
\* each are those of its own hits, so a link the other request has seen is
\* kept, and the errors of its response are those of its own failed calls
C24_RequestsIsolated ==
  peer # NoPeer =>
    /\ Isolated(Locals(Running), peer)
    /\ Isolated(peer, Locals(Running))

\* request 2 was answered with the candidate's entity and no debug block
\* while request 1, which has seen the same link and recorded a failed
\* search, awaits its classification
C24_Witness ==
  /\ peer # NoPeer
  /\ peer.id = 1
  /\ peer.pc = "classify"
  /\ peer.errors # <<>>
  /\ pc = "done"
  /\ responses[1].status = 200
  /\ responses[1].results # <<>>
  /\ responses[1].debug = Undef
  /\ seenUrls \cap peer.seenUrls # {}
  /\ LinksOf(Candidates) \cap peer.seenUrls # {}

\* C25: a request whose body has no query, or an empty one, is answered
\* with status 400 and the error 'Query required', and no model call and no
\* search call is issued for it
C25_QueryRequired ==
  (query = Undef \/ query = Str(<<>>)) =>
    /\ gem = EmptyMap
    /\ searchCalls = 0
    /\ page = EmptyMap
    /\ pc \in {"start", "done"}
    /\ pc = "done" => responses = <<[status |-> 400, error |-> <<"Query required">>]>>

\* a request with an empty query has been answered
C25_Witness ==
  /\ query = Str(<<>>)
  /\ pc = "done"
  /\ Len(responses) = 1
  /\ responses[1].status = 400

\* the hits of phrase i under strategy ch as the provider returned them, by
\* ascending offset; none when the googleSearch promise of the phrase
\* rejected
PhraseItems(ch, i) ==
  IF <<ch, i>> \in DOMAIN gs /\ ~gs[<<ch, i>>].rejected
  THEN LET offs == Offsets(Pages(variant, ch))
       IN Flat([j \in 1..Len(offs) |-> page[<<ch, i, offs[j]>>].items])
  ELSE <<>>
\* the hits of strategy ch, by phrase index
StrategyItems(ch) ==
  LET n == IF ch = "ig" THEN Len(expansion.queries)
           ELSE WebCount(variant, Len(expansion.queries))
  IN Flat([i \in 1..n |-> PhraseItems(ch, i)])
\* the place of the first raw hit that bears link l
FirstIndex(l) ==
  CHOOSE i \in 1..Len(RawHitList) :
    /\ RawHitList[i].link = l
    /\ \A j \in 1..(i - 1) : RawHitList[j].link # l
\* the entities the model gave for the batch of prompt p
EntitiesOf(p) ==
  IF BatchFailed(p) THEN <<>>
  ELSE LET v == JsonParse(Clean(got[p].raw)).v
       IN IF v.k = "array" THEN v.a ELSE <<v>>
\* the entities of the batches of one classifier, by batch index
EntitiesInOrder(kind) ==
  LET k == Cardinality({p \in DOMAIN batches : p[1] = kind})
      F[b \in 0..k] == IF b = 0 THEN <<>> ELSE F[b - 1] \o EntitiesOf(<<kind, b>>)
  IN F[k]

\* C26: whatever the order in which the pending page calls and batch calls
\* completed, the raw hits are those of the Instagram phrases by index, the
\* pages by ascending offset, then those of the web phrases, the candidates
\* stand in the order of their first hits, the classified entities are
\* those of the batches by batch index, and the results and the count of
\* the response are computed from these
C26_CompletionOrderIrrelevant ==
  /\ (Folded /\ page # EmptyMap) =>
       /\ RawHitList = StrategyItems("ig") \o StrategyItems("web")
       /\ \A i, j \in 1..Len(Candidates) :
            i < j => FirstIndex(Candidates[i].link) < FirstIndex(Candidates[j].link)
  /\ (pc = "done" /\ batchOut # EmptyMap) =>
       /\ igClassified = EntitiesInOrder("classify")
       /\ webExtracted = EntitiesInOrder("extract")
       /\ responses[1].status = 200 =>
            /\ Len(responses[1].results) = Len(Entities)
            /\ \A i \in 1..Len(Entities) :
                 /\ responses[1].results[i].name = Get(Entities[i], "name")
                 /\ responses[1].results[i].handle = Get(Entities[i], "handle")
            /\ responses[1].meta.candidates_scanned = Len(Candidates)

\* the second batch of the Instagram classifier settled before the first,
\* the model gave other entities for it than for the first, and the
\* entities of the first batch come first in the results
C26_Witness ==
  /\ pc = "done"
  /\ <<"classify", 2>> \in overtook
  /\ EntitiesOf(<<"classify", 1>>) # <<>>
  /\ EntitiesOf(<<"classify", 2>>) # <<>>
  /\ EntitiesOf(<<"classify", 1>>)[1] # EntitiesOf(<<"classify", 2>>)[1]
  /\ responses[1].status = 200
  /\ responses[1].results[1].name = Get(EntitiesOf(<<"classify", 1>>)[1], "name")

\* web entity j is in the list the merge made
Appended(j) == \E i \in 1..Len(WebTail) : WebTail[i] = webExtracted[j]

\* C27: the merge disposes of every web-extracted entity: it makes a list
\* that starts with the Instagram entities, in which an entity with neither
\* handle nor name is never appended, an entity with a handle is appended
\* exactly when its handle is new, whatever its name, and every other entity
\* is appended exactly when its name is new
C27_AppendedOrDropped ==
  (variant = "v3" /\ pc = "done" /\ batchOut # EmptyMap /\ AllWellTyped) =>
    /\ Len(mergedResults) >= Len(igClassified)
    /\ SubSeq(mergedResults, 1, Len(igClassified)) = igClassified
    /\ Len(WebTail) <= Len(webExtracted)
    /\ \A i \in 1..Len(WebTail) :
         HasHandle(WebTail[i]) \/ Truthy(Get(WebTail[i], "name"))
    /\ \A j \in 1..Len(webExtracted) :
         HasHandle(webExtracted[j]) => (Appended(j) <=> \E k \in 1..j :
                                          /\ NovelHandle(k, HasHandle)
                                          /\ webExtracted[k] = webExtracted[j])
    /\ mergedResults = RuleMerge

\* the calls made to the models: <<prompt, model, number>>
ModelCalls ==
  UNION {{<<p, "primary", k>> : k \in 1..gem[p].primaryCalls} \cup
         {<<p, "fallback", k>> : k \in 1..gem[p].fallbackCalls} : p \in DOMAIN gem}

\* C28: in the two-channel variant with i Instagram and w web candidates no
\* prompt is sent to the same model twice, the prompts of the batches
\* differ, at most 2 * (1 + ceil(i/40) + ceil(w/30)) model calls are made,
\* and a request with no candidate makes the calls of the expansion only
C28_ModelCallsBounded ==
  variant = "v3" =>
    /\ \A p \in DOMAIN gem : gem[p].primaryCalls <= 1 /\ gem[p].fallbackCalls <= 1
    /\ \A p, q \in DOMAIN batches : (p # q /\ p[1] = q[1]) => batches[p] # batches[q]
    /\ Cardinality(ModelCalls) <=
         2 * (1 + Ceil(Len(uniqueIgItems), 40) + Ceil(Len(uniqueWebItems), 30))
    /\ (Folded /\ Candidates = <<>>) => DOMAIN gem \subseteq {ExpandPrompt}

\* 41 Instagram and 31 web candidates, four batches, and both models were
\* called for every batch
C28_Witness ==
  /\ variant = "v3"
  /\ pc = "done"
  /\ Len(uniqueIgItems) = 41
  /\ Len(uniqueWebItems) = 31
  /\ Cardinality(DOMAIN batches) = 4
  /\ \A p \in DOMAIN batches : gem[p].primaryCalls = 1 /\ gem[p].fallbackCalls = 1
  /\ Cardinality(ModelCalls) = 9

\* the candidates the re-attachment searches
LogoCandidates == uniqueIgItems
\* the handle of r without its first '@', nothing when r has no handle
HandleName(r) ==
  IF Get(r, "handle").k = "string" THEN ReplaceFirst(Get(r, "handle").s, "@") ELSE <<>>
\* candidate u is related to entity r: its link is r's url or contains r's
\* non-empty handle name
Related(u, r) ==
  \/ Get(r, "url").k = "string" /\ u.link = Get(r, "url").s
  \/ HandleName(r) # <<>> /\ Includes(u.link, HandleName(r))
DefaultSource == IF variant = "v3" THEN Str(<<"Discovery">>) ELSE Str(<<"Unknown">>)

\* C29: an entity of the results has the logoUrl and the sourceQuery of a
\* candidate only if that candidate is related to it; an entity to which
\* no candidate is related has the classifier's logo or null, and the
\* default sourceQuery
C29_LogoFromRelatedOnly ==
  Answered =>
    \A i \in 1..Len(Entities) :
      LET r == Entities[i]
          out == responses[1].results[i]
          related == {j \in 1..Len(LogoCandidates) : Related(LogoCandidates[j], r)}
      IN /\ related = {} =>
              /\ out.logo = Or(Get(r, "logo"), JNull)
              /\ out.sourceQuery = Or(Get(r, "sourceQuery"), DefaultSource)
         /\ (out.logo # Or(Get(r, "logo"), JNull)) =>
              \E j \in related : LogoCandidates[j].logoUrl = out.logo
         /\ (out.sourceQuery # Or(Get(r, "sourceQuery"), DefaultSource)) =>
              \E j \in related : Str(LogoCandidates[j].sourceQuery) = out.sourceQuery

\* the owner usernames of the posts of items
OwnerUsernames(items) ==
  {items[n].ownerUsername.s :
     n \in {m \in 1..Len(items) :
              items[m].k = "object" /\ items[m].ownerUsername.k = "string"}} \cup
  {items[n].ownerProfile.username.s :
     n \in {m \in 1..Len(items) :
              /\ items[m].k = "object"
              /\ items[m].ownerProfile.k = "object"
              /\ items[m].ownerProfile.username.k = "string"}}
Collected == {scrape.usernames[j] : j \in 1..Len(scrape.usernames)}

\* C30: collectUsernamesFromHashtags scans the hashtags one at a time in
\* list order; its list has no duplicate and holds every known handle and
\* every owner username of every post of every hashtag whose scan succeeded;
\* a failing scan removes no username and does not stop the scan of the
\* later hashtags; successCount + failCount is the number of hashtags at
\* the end, where the list is returned
C30_ScanCollectsAll ==
  scrape.pc # "idle" =>
    /\ scrape.pc # "rejected"
    /\ Len(scrape.log) = scrape.i
    /\ \A k \in 1..Len(scrape.log) : scrape.log[k].hashtag = CITY_HASHTAGS[k]
    /\ \A i, j \in 1..Len(scrape.usernames) :
         i # j => scrape.usernames[i] # scrape.usernames[j]
    /\ \A h \in 1..Len(KNOWN_HANDLES) : KNOWN_HANDLES[h] \in Collected
    /\ \A k \in 1..Len(scrape.log) :
         /\ ~scrape.log[k].failed => OwnerUsernames(scrape.log[k].items) \subseteq Collected
         /\ \A j \in 1..Len(scrape.log[k].usernames) :
              scrape.log[k].usernames[j] \in Collected
    /\ scrape.successCount + scrape.failCount = scrape.i
    /\ scrape.pc = "returned" =>
         /\ scrape.i = Len(CITY_HASHTAGS)
         /\ scrape.result = scrape.usernames

====
